---- MODULE Spec2Model ----
(***************************************************************************)
(* A model of src/src/DateTree.ts: the date-component codec, the path      *)
(* resolver, the range iterator (iterate) with its consumers next and      *)
(* previous, and the nearby-change watcher (changesAbout).                 *)
(*                                                                         *)
(* Representation.  A Moment is a record of moment.js native fields        *)
(* (month is 0-based, the day of month is "date").  A key is a sequence of *)
(* one-character strings.  A node reference is the sequence of keys that   *)
(* leads to it from the tree's root.  JS `undefined` is the number         *)
(* `undefined` for component values, the empty key for keys and the empty  *)
(* sequence for an optional reference or moment.                           *)
(***************************************************************************)
EXTENDS Integers, Sequences, FiniteSets, TLC

(***************************************************************************)
(* Bounds of the model                                                     *)
(***************************************************************************)
\* at most this many leaves are put into the tree
MaxLeaves == 2
\* at most this many change notifications are delivered to a watcher
MaxNotifications == 2
\* at most this many calls of a watcher's cancellation handle
MaxOffCalls == 2

\* the calendar values the model draws dates from (native month: 7 = August)
Years == {2020, 2021}
NativeMonths == {7, 8}
DaysOfMonth == {1, 23}
Hours == {0, 12}
Resolutions == {"year", "month", "day"}

(***************************************************************************)
(* JS values                                                               *)
(***************************************************************************)
undefined == 0 - 1
NaN == 0 - 2
undefinedKey == <<>>

(***************************************************************************)
(* Units                                                                   *)
(***************************************************************************)
ALL_DATE_UNITS == <<"year", "month", "day", "hour", "minute", "second", "millisecond">>

indexOf(unit) == CHOOSE i \in 1..Len(ALL_DATE_UNITS) : ALL_DATE_UNITS[i] = unit

nativeDateUnit(res) == IF res = "day" THEN "date" ELSE res

graphDateValue(value, res) == IF res = "month" THEN value + 1 ELSE value

\* a native value that keeps the month 1-based
nativeValueUnshifted(value, res) == value

nativeDateValue(value, res) == IF res = "month" THEN value - 1 ELSE value

isResolution(resolution) == \E i \in 1..Len(ALL_DATE_UNITS) : ALL_DATE_UNITS[i] = resolution

\* the ladder prefix up to and including the resolution
allUnits(resolution) == SubSeq(ALL_DATE_UNITS, 1, indexOf(resolution))

\* undefined (here "none") for the first unit
getBiggerUnit(unit) == IF indexOf(unit) = 1 THEN "none" ELSE ALL_DATE_UNITS[indexOf(unit) - 1]

(***************************************************************************)
(* Moments                                                                 *)
(***************************************************************************)
NativeUnits == <<"year", "month", "date", "hour", "minute", "second", "millisecond">>

\* moment.utc().startOf('year').set('year', 1)
ZERO_DATE == [year |-> 1, month |-> 0, date |-> 1, hour |-> 0,
              minute |-> 0, second |-> 0, millisecond |-> 0]

parseDate(date) == date

RECURSIVE momentBeforeFrom(_, _, _)
momentBeforeFrom(a, b, i) ==
    IF i > Len(NativeUnits) THEN FALSE
    ELSE LET f == NativeUnits[i] IN
         IF a[f] < b[f] THEN TRUE
         ELSE IF a[f] > b[f] THEN FALSE
         ELSE momentBeforeFrom(a, b, i + 1)

isBefore(a, b) == momentBeforeFrom(a, b, 1)
isAfter(a, b) == momentBeforeFrom(b, a, 1)
isSame(a, b) == a = b

\* every point in time the model uses
Instants == { [year |-> y, month |-> mo, date |-> d, hour |-> h,
               minute |-> 0, second |-> 0, millisecond |-> 0] :
              y \in Years, mo \in NativeMonths, d \in DaysOfMonth, h \in Hours }

(***************************************************************************)
(* Keys: strings as sequences of characters                                *)
(***************************************************************************)
DigitChars == <<"0", "1", "2", "3", "4", "5", "6", "7", "8", "9">>

digitValues == [c \in { DigitChars[i] : i \in 1..10 } |->
                  (CHOOSE i \in 1..10 : DigitChars[i] = c) - 1]

isDigit(c) == c \in DOMAIN digitValues
digitValue(c) == digitValues[c]

\* UTF-16 code units of the characters the model uses
charCodes == [c \in DOMAIN digitValues \cup {".", "_", "x"} |->
                IF c = "." THEN 46
                ELSE IF isDigit(c) THEN 48 + digitValue(c)
                ELSE IF c = "_" THEN 95
                ELSE 120]

charCode(c) == charCodes[c]

\* a < b as JS strings
RECURSIVE keyLess(_, _)
keyLess(a, b) ==
    IF b = <<>> THEN FALSE
    ELSE IF a = <<>> THEN TRUE
    ELSE IF charCode(Head(a)) < charCode(Head(b)) THEN TRUE
    ELSE IF charCode(Head(a)) > charCode(Head(b)) THEN FALSE
    ELSE keyLess(Tail(a), Tail(b))

\* Number.prototype.toString of a natural number
RECURSIVE toString(_)
toString(n) == IF n < 10 THEN <<DigitChars[n + 1]>>
               ELSE toString(n \div 10) \o <<DigitChars[(n % 10) + 1]>>

\* a key that is never padded
padNever(key, padLen, c) == key

RECURSIVE padStart(_, _, _)
padStart(key, padLen, c) == IF Len(key) >= padLen THEN key
                            ELSE padStart(<<c>> \o key, padLen, c)

\* one past the largest graph value of each unit below the year
MAX_DATE_COMPS == [month |-> 13, day |-> 32, hour |-> 24, minute |-> 60,
                   second |-> 60, millisecond |-> 1000]

DATE_COMP_PADS == [unit \in {"year", "month", "day", "hour", "minute", "second", "millisecond"} |->
                     IF unit \in DOMAIN MAX_DATE_COMPS
                     THEN Len(toString(MAX_DATE_COMPS[unit] - 1))
                     ELSE 4]

encodeDateComponent(value, unit) ==
    IF value = undefined THEN undefinedKey
    ELSE padStart(toString(value), DATE_COMP_PADS[unit], "0")

\* the digits at the front of a key
RECURSIVE leadingDigits(_)
leadingDigits(key) == IF key = <<>> \/ ~isDigit(Head(key)) THEN <<>>
                      ELSE <<Head(key)>> \o leadingDigits(Tail(key))

\* digits read in base eight
RECURSIVE digitsValueOctal(_, _)
digitsValueOctal(ds, acc) == IF ds = <<>> THEN acc
                             ELSE digitsValueOctal(Tail(ds), acc * 8 + digitValue(Head(ds)))

RECURSIVE digitsValue(_, _)
digitsValue(ds, acc) == IF ds = <<>> THEN acc
                        ELSE digitsValue(Tail(ds), acc * 10 + digitValue(Head(ds)))

\* Math.round(parseFloat(key)): the integer part, a fraction of one half or
\* more rounding up; NaN when the key does not start with a number
decodeDateComponent(key) ==
    LET int == leadingDigits(key)
        rest == SubSeq(key, Len(int) + 1, Len(key))
        frac == IF rest # <<>> /\ Head(rest) = "." THEN leadingDigits(Tail(rest)) ELSE <<>>
    IN IF int = <<>> /\ frac = <<>> THEN NaN
       ELSE digitsValue(int, 0) + (IF frac # <<>> /\ digitValue(Head(frac)) >= 5 THEN 1 ELSE 0)

(***************************************************************************)
(* Date components: functions from a set of units to values                *)
(***************************************************************************)
getDateComponent(date, unit) ==
    graphDateValue(parseDate(date)[nativeDateUnit(unit)], unit)

getDateComponents(date, resolution) ==
    [res \in { ALL_DATE_UNITS[i] : i \in 1..indexOf(resolution) } |->
        getDateComponent(parseDate(date), res)]

\* the empty component mapping {}
noComps == [res \in {} |-> undefined]

\* the value of a unit in a component mapping, undefined when it has none
compOf(comps, unit) == IF unit \in DOMAIN comps THEN comps[unit] ELSE undefined

\* a copy that keeps every unit of the components
downsampleNothing(components, resolution) == components

\* every unit up to the resolution gets a key, an absent one the value undefined
downsampleDateComponents(components, resolution) ==
    [res \in { ALL_DATE_UNITS[i] : i \in 1..indexOf(resolution) } |-> compOf(components, res)]

\* the units applied: the ladder up to the first missing unit, or up to the
\* resolution when one is given ("none": not given)
RECURSIVE setUnitsFrom(_, _, _, _)
setUnitsFrom(m, comps, resolution, i) ==
    IF i > Len(ALL_DATE_UNITS) THEN m
    ELSE LET res == ALL_DATE_UNITS[i] IN
         IF res \notin DOMAIN comps THEN m
         ELSE LET m2 == [m EXCEPT ![nativeDateUnit(res)] = nativeDateValue(comps[res], res)]
              IN IF res = resolution THEN m2
                 ELSE setUnitsFrom(m2, comps, resolution, i + 1)

getDateWithComponents(comps, resolution) == setUnitsFrom(ZERO_DATE, comps, resolution, 1)

(***************************************************************************)
(* The store: the leaves that hold a value, each as its path of keys       *)
(***************************************************************************)
root == <<>>

\* the references from the root to the leaf of a date
getRefChain(date, resolution) ==
    LET comps == getDateComponents(date, resolution)
        units == allUnits(resolution)
    IN [i \in 1..(Len(units) + 1) |->
          [j \in 1..(i - 1) |-> encodeDateComponent(comps[units[j]], units[j])]]

get(date, resolution) ==
    LET chain == getRefChain(parseDate(date), resolution) IN chain[Len(chain)]

(***************************************************************************)
(* getDate: from a chain reference of the graph back to the date           *)
(***************************************************************************)
\* a chain reference is the path of keys from the top of the graph to the
\* node; the tree's root is the node gun.get('tree-get')
treeKey == <<"t", "r", "e", "e", "-", "g", "e", "t">>

rootChain == << treeKey >>

\* the chain reference of a node of the tree
chainOf(ref) == rootChain \o ref

\* currentRef.back(): the parent, absent at the top of the graph
back(chain) == IF chain = << >> THEN << >> ELSE << SubSeq(chain, 1, Len(chain) - 1) >>

\* currentRef._.get: the key of the node under its parent
keyOf(chain) == IF chain = << >> THEN undefinedKey ELSE chain[Len(chain)]

invalidReference ==
    [kind |-> "error", value |-> "Invalid Gun node reference. Expected a leaf on the date tree."]

\* a walk that counts the steps and accepts any node it ends at
RECURSIVE walkBackDepthOnly(_, _, _)
walkBackDepthOnly(currentRef, keys, n) ==
    IF currentRef # << >> /\ Len(keys) < n
    THEN IF currentRef[1] = rootChain THEN invalidReference
         ELSE walkBackDepthOnly(back(currentRef[1]), <<keyOf(currentRef[1])>> \o keys, n)
    ELSE IF currentRef = << >> THEN invalidReference
         ELSE [kind |-> "keys", value |-> keys]

\* lines 174-184: the keys from the reference up, at most one for each unit;
\* the walk may not meet the root early and must end at it
RECURSIVE walkBack(_, _, _)
walkBack(currentRef, keys, n) ==
    IF currentRef # << >> /\ Len(keys) < n
    THEN IF currentRef[1] = rootChain THEN invalidReference
         ELSE walkBack(back(currentRef[1]), <<keyOf(currentRef[1])>> \o keys, n)
    ELSE IF currentRef # << rootChain >> THEN invalidReference
         ELSE [kind |-> "keys", value |-> keys]

\* a moment set to a value that is no number
invalidMoment == [f \in DOMAIN ZERO_DATE |-> NaN]

\* lines 170-188
getDate(ref, resolution) ==
    LET units == allUnits(resolution)
        walked == walkBack(<<ref>>, << >>, Len(units))
    IN IF walked.kind = "error" THEN walked
       ELSE LET keys == walked.value
                values == [i \in 1..Len(keys) |-> decodeDateComponent(keys[i])]
                comps == [unit \in { units[i] : i \in 1..Len(units) } |-> values[indexOf(unit)]]
            IN [kind |-> "date",
                value |-> IF \E i \in 1..Len(values) : values[i] = NaN THEN invalidMoment
                          ELSE getDateWithComponents(comps, "none")]

\* the keys of the children of a node
childKeys(leaves, ref) ==
    { p[Len(ref) + 1] : p \in { q \in leaves : Len(q) > Len(ref) /\ SubSeq(q, 1, Len(ref)) = ref } }

RECURSIVE sortKeys(_)
sortKeys(keys) ==
    IF keys = {} THEN <<>>
    ELSE CHOOSE sorted \in
             { <<least>> \o sortKeys(keys \ {least}) :
                 least \in { k \in keys : \A o \in keys : ~keyLess(o, k) } } : TRUE

reverseSeq(s) == [i \in 1..Len(s) |-> s[Len(s) + 1 - i]]

inRange(key, opts) ==
    /\ \/ opts.start = undefinedKey
       \/ keyLess(opts.start, key)
       \/ (opts.startInclusive /\ key = opts.start)
    /\ \/ opts.end = undefinedKey
       \/ keyLess(key, opts.end)
       \/ (opts.endInclusive /\ key = opts.end)

\* the child keys of a node within the bounds, in key order, descending when
\* reverse; a store that breaks its listing contract ignores the bounds
iterateRefs(leaves, ref, opts, contract) ==
    LET keys == { k \in childKeys(leaves, ref) : ~contract \/ inRange(k, opts) }
    IN CHOOSE items \in { IF opts.reverse THEN reverseSeq(sorted) ELSE sorted :
                            sorted \in { sortKeys(ks) : ks \in {keys} } } : TRUE

(***************************************************************************)
(* iterate: the generator's frame and its steps                            *)
(***************************************************************************)
\* a range that is never expanded off the boundary paths
rangeNeverExpanded(comps, startComps, endComps, unit) ==
    <<compOf(startComps, unit), compOf(endComps, unit)>>

\* a range that is expanded when the parent's own value differs from the
\* boundary's, whatever the units above the parent hold
rangeByParentOnly(comps, startComps, endComps, unit) ==
    LET upUnit == getBiggerUnit(unit)
    IN << IF upUnit # "none" /\ compOf(startComps, upUnit) # compOf(comps, upUnit)
          THEN undefined ELSE compOf(startComps, unit),
          IF upUnit # "none" /\ compOf(endComps, upUnit) # compOf(comps, upUnit)
          THEN undefined ELSE compOf(endComps, unit) >>

getDateComponentRange(comps, startComps, endComps, unit) ==
    LET startVal == compOf(startComps, unit)
        endVal == compOf(endComps, unit)
        upUnit == getBiggerUnit(unit)
    IN IF startVal = undefined /\ endVal = undefined THEN <<startVal, endVal>>
       ELSE IF upUnit = "none" THEN <<startVal, endVal>>
       ELSE LET upComps == downsampleDateComponents(comps, upUnit)
            IN << IF startVal # undefined
                     /\ downsampleDateComponents(startComps, upUnit) # upComps
                  THEN undefined ELSE startVal,
                  IF endVal # undefined
                     /\ downsampleDateComponents(endComps, upUnit) # upComps
                  THEN undefined ELSE endVal >>

\* the frame of a call of iterate without bounds before its first step
newIterate ==
    [pc |-> "loop", ref |-> <<root>>, startComps |-> noComps, endComps |-> noComps,
     comps |-> noComps, unitIndex |-> 0,
     it |-> 0, itStack |-> << >>, listings |-> << >>, value |-> << >>]

noIterate == [newIterate EXCEPT !.pc = "none", !.ref = << >>]

startCompsOf(opts, resolution) ==
    IF opts.start # << >> THEN getDateComponents(opts.start[1], resolution) ELSE noComps

endCompsOf(opts, resolution) ==
    IF opts.end # << >> THEN getDateComponents(opts.end[1], resolution) ELSE noComps

\* lines 299-307: the frame of a call of iterate before its first step, the
\* components of its bounds computed once
beginIterate(opts, resolution) ==
    [newIterate EXCEPT !.startComps = startCompsOf(opts, resolution),
                       !.endComps = endCompsOf(opts, resolution)]

\* a listing that applies the caller's inclusivity flags at every level, or
\* (swapped) that exchanges the bounds when iterating in reverse
openListingWith(g, leaves, resolution, opts, contract, leafOnly, swapped) ==
    LET units == allUnits(resolution)
        unit == units[g.unitIndex + 1]
        range == getDateComponentRange(g.comps, g.startComps, g.endComps, unit)
        atLeaf == g.unitIndex = Len(units) - 1
        swap == swapped /\ opts.reverse
        listOpts == [start |-> encodeDateComponent(range[IF swap THEN 2 ELSE 1], unit),
                     end |-> encodeDateComponent(range[IF swap THEN 1 ELSE 2], unit),
                     startInclusive |-> opts.startInclusive \/ (leafOnly /\ ~atLeaf),
                     endInclusive |-> opts.endInclusive \/ (leafOnly /\ ~atLeaf),
                     reverse |-> opts.reverse]
        listing == [unit |-> unit, ref |-> g.ref[1], opts |-> listOpts, comps |-> g.comps,
                    items |-> iterateRefs(leaves, g.ref[1], listOpts, contract),
                    status |-> "open"]
    IN [g EXCEPT !.listings = Append(g.listings, listing),
                 !.it = Len(g.listings) + 1,
                 !.itStack = <<Len(g.listings) + 1>> \o g.itStack,
                 !.ref = << >>]

openListingFlagsEverywhere(g, leaves, resolution, opts, contract) ==
    openListingWith(g, leaves, resolution, opts, contract, FALSE, FALSE)

openListingSwapped(g, leaves, resolution, opts, contract) ==
    openListingWith(g, leaves, resolution, opts, contract, TRUE, TRUE)

\* lines 321-332: queue another node for iteration (the listing is the one
\* value of a singleton set, so that its options are computed once)
openListing(g, leaves, resolution, opts, contract) ==
    LET units == allUnits(resolution)
        unit == units[g.unitIndex + 1]
        range == getDateComponentRange(g.comps, g.startComps, g.endComps, unit)
        atLeaf == g.unitIndex = Len(units) - 1
        listOpts == [start |-> encodeDateComponent(range[1], unit),
                     end |-> encodeDateComponent(range[2], unit),
                     startInclusive |-> opts.startInclusive \/ ~atLeaf,
                     endInclusive |-> opts.endInclusive \/ ~atLeaf,
                     reverse |-> opts.reverse]
        listing == CHOOSE l \in { [unit |-> unit, ref |-> g.ref[1], opts |-> lo, comps |-> g.comps,
                                    items |-> iterateRefs(leaves, g.ref[1], lo, contract),
                                    status |-> "open"] : lo \in {listOpts} } : TRUE
    IN [g EXCEPT !.listings = Append(g.listings, listing),
                 !.it = Len(g.listings) + 1,
                 !.itStack = <<Len(g.listings) + 1>> \o g.itStack,
                 !.ref = << >>]

\* going up a level with the component of the level kept
goUpKeepingComps(g, resolution) ==
    [g EXCEPT !.itStack = Tail(g.itStack),
              !.unitIndex = g.unitIndex - 1,
              !.pc = IF g.unitIndex - 1 >= 0 THEN "loop" ELSE "done"]

\* lines 360-367: go up a level
goUp(g, resolution) ==
    LET unit == allUnits(resolution)[g.unitIndex + 1]
    IN [g EXCEPT !.itStack = Tail(g.itStack),
                 !.unitIndex = g.unitIndex - 1,
                 !.comps = [u \in DOMAIN g.comps \ {unit} |-> g.comps[u]],
                 !.pc = IF g.unitIndex - 1 >= 0 THEN "loop" ELSE "done"]

setComp(comps, unit, val) ==
    [u \in DOMAIN comps \cup {unit} |-> IF u = unit THEN val ELSE comps[u]]

\* lines 336-345: one pull of the leaf listing by the for-await loop, which
\* yields the pair found or, the listing done, leaves the loop and goes up
leafPull(g, resolution) ==
    LET unit == allUnits(resolution)[g.unitIndex + 1]
        l == g.listings[g.it]
    IN IF l.status = "open" /\ l.items # << >>
       THEN CHOOSE next \in
                { [g EXCEPT !.listings[g.it].items = Tail(l.items),
                            !.comps = comps,
                            !.value = << Append(l.ref, Head(l.items)),
                                         getDateWithComponents(comps, resolution) >>,
                            !.pc = "yield"] :
                    comps \in { setComp(g.comps, unit, compVal) :
                                  compVal \in { decodeDateComponent(Head(l.items)) } } } : TRUE
       ELSE goUp([g EXCEPT !.listings[g.it].status = "done"], resolution)

\* a sibling step that stays at the level of a listing that is done
siblingStaying(g, resolution) ==
    LET unit == allUnits(resolution)[g.unitIndex + 1]
        l == g.listings[g.itStack[1]]
    IN IF l.status = "open" /\ l.items # << >>
       THEN [g EXCEPT !.listings[g.itStack[1]].items = Tail(l.items),
                      !.ref = << Append(l.ref, Head(l.items)) >>,
                      !.comps = setComp(g.comps, unit, decodeDateComponent(Head(l.items))),
                      !.unitIndex = g.unitIndex + 1]
       ELSE [g EXCEPT !.listings[g.itStack[1]].status = "done"]

\* lines 347-359: go to the sibling
sibling(g, resolution) ==
    LET unit == allUnits(resolution)[g.unitIndex + 1]
        l == g.listings[g.itStack[1]]
    IN IF l.status = "open" /\ l.items # << >>
       THEN [g EXCEPT !.listings[g.itStack[1]].items = Tail(l.items),
                      !.ref = << Append(l.ref, Head(l.items)) >>,
                      !.comps = setComp(g.comps, unit, decodeDateComponent(Head(l.items))),
                      !.unitIndex = g.unitIndex + 1]
       ELSE goUp([g EXCEPT !.listings[g.itStack[1]].status = "done"], resolution)

\* lines 309-368: one turn of the while loop, up to the first yield in it
\* (the frame after the listing is opened is computed once)
loopBody(g, leaves, resolution, opts, contract) ==
    LET atLeaf == g.unitIndex = Len(allUnits(resolution)) - 1
        opened == IF g.ref # << >> THEN openListing(g, leaves, resolution, opts, contract) ELSE g
    IN CHOOSE next \in { IF g1.it # 0 /\ atLeaf THEN leafPull(g1, resolution)
                                                ELSE sibling(g1, resolution) :
                         g1 \in {opened} } : TRUE

\* the consumer asks for the next pair while the generator waits at its yield
resume(g, resolution) == leafPull(g, resolution)

\* a call of iterate drained to its end: the pairs yielded, in order, and
\* the listings opened
RECURSIVE drainFrom(_, _, _, _, _, _)
drainFrom(g, leaves, resolution, opts, contract, acc) ==
    IF g.pc = "done" THEN [out |-> acc, listings |-> g.listings]
    ELSE IF g.pc = "yield"
         THEN drainFrom(resume(g, resolution), leaves, resolution, opts, contract,
                        Append(acc, g.value))
         ELSE drainFrom(loopBody(g, leaves, resolution, opts, contract),
                        leaves, resolution, opts, contract, acc)

iterateAll(leaves, resolution, opts, contract) ==
    drainFrom(beginIterate(opts, resolution), leaves, resolution, opts, contract, << >>)

\* the consumer returns the generator waiting at its yield: the for-await
\* loop of line 336 closes the listing it iterates, and the frame is dropped
return(g) == [g EXCEPT !.listings[g.it].status = "closed", !.pc = "closed"]

(***************************************************************************)
(* State                                                                   *)
(***************************************************************************)
VARIABLES
    resolution,   \* the tree's resolution
    tree,         \* the leaves put so far, each the path of keys from the root
    contract,     \* TRUE: the store's listings honour their bounds
    call,         \* the call in progress: op, opts and (next, previous) date
    gen,          \* the frame of the iterate generator of the call
    out,          \* the pairs the consumer of iterate has received, in order
    result,       \* what next or previous ended with
    watch,        \* the call of changesAbout: its date and its comps
    eventsTable,  \* the watcher's table of its subscriptions, by unit
    subs,         \* the live subscriptions of the store, as unit and node
    notification, \* the change notification delivered last
    calls,        \* the calls of the callback the last notification made
    logged,       \* the number of errors the watcher has logged
    delivered,    \* the number of changes the store has made under watched nodes
    handle,       \* the cancellation handle: its calls and what they did
    codec,        \* a call of the codec: its inputs and its results
    path,         \* a call of the path resolver: its inputs and its results
    period        \* a call of nextDate or previousDate: its date and its result

watchVars == <<watch, eventsTable, subs, notification, calls, logged, delivered, handle>>

pureVars == <<codec, path, period>>

vars == <<resolution, tree, contract, call, gen, out, result, watchVars, pureVars>>

noWatch == [on |-> FALSE, date |-> << >>, comps |-> noComps]

noEvents == [unit \in {} |-> root]

noNotification == [unit |-> "none", changes |-> << >>, failing |-> {}]

\* the handle before its first call: the calls of it, the subscriptions they
\* turned off in the store, and the changes the store made after the first
noHandle == [calls |-> 0, offs |-> 0, changes |-> 0]

noCodec == [pc |-> "none"]

noPath == [pc |-> "none"]

noPeriod == [pc |-> "none"]

noOpts == [start |-> << >>, end |-> << >>, startInclusive |-> TRUE,
           endInclusive |-> FALSE, reverse |-> FALSE]

noCall == [op |-> "none", opts |-> noOpts, date |-> << >>]

\* what next and previous end with: a pair, the absent pair or an error
pending == [kind |-> "pending", value |-> << >>]
absentPair == [kind |-> "absent", value |-> << >>]
thrown == [kind |-> "error", value |-> << >>]
pairOf(value) == [kind |-> "pair", value |-> value]

\* the start of the period of the resolution that holds the date
startOf(date, res) ==
    [f \in DOMAIN date |->
        IF \E i \in 1..indexOf(res) : nativeDateUnit(ALL_DATE_UNITS[i]) = f
        THEN date[f] ELSE ZERO_DATE[f]]

Aligned(res) == { startOf(d, res) : d \in Instants }

optional(S) == { << >> } \cup { <<x>> : x \in S }

Init ==
    /\ resolution \in Resolutions
    /\ tree = {}
    /\ contract = TRUE
    /\ call = noCall
    /\ gen = noIterate
    /\ out = << >>
    /\ result = pending
    /\ watch = noWatch
    /\ eventsTable = noEvents
    /\ subs = {}
    /\ notification = noNotification
    /\ calls = << >>
    /\ logged = 0
    /\ delivered = 0
    /\ handle = noHandle
    /\ codec = noCodec
    /\ path = noPath
    /\ period = noPeriod

\* put(date, value): lines 76-80
Put(date) ==
    /\ call.op = "none"
    /\ Cardinality(tree \cup {get(date, resolution)}) <= MaxLeaves
    /\ tree' = tree \cup {get(date, resolution)}
    /\ UNCHANGED <<resolution, contract, call, gen, out, result, watchVars, pureVars>>

\* iterate(opts) is called: lines 291-307
Iterate(opts) ==
    /\ call.op = "none"
    /\ call' = [op |-> "iterate", opts |-> opts, date |-> << >>]
    /\ gen' = beginIterate(opts, resolution)
    /\ UNCHANGED <<resolution, tree, contract, out, result, watchVars, pureVars>>

\* what the consumer holds after a step of the generator
received(g) == IF g.pc = "yield" THEN Append(out, g.value) ELSE out

\* the generator, asked for a pair, runs one turn of its loop
Loop ==
    /\ gen.pc = "loop"
    /\ gen' = loopBody(gen, tree, resolution, call.opts, contract)
    /\ out' = received(gen')
    /\ UNCHANGED <<resolution, tree, contract, call, result, watchVars, pureVars>>

\* the consumer of iterate asks for the next pair
Pull ==
    /\ call.op = "iterate"
    /\ gen.pc = "yield"
    /\ gen' = resume(gen, resolution)
    /\ out' = received(gen')
    /\ UNCHANGED <<resolution, tree, contract, call, result, watchVars, pureVars>>

\* the consumer of iterate stops before exhaustion
Stop ==
    /\ call.op = "iterate"
    /\ gen.pc = "yield"
    /\ gen' = return(gen)
    /\ UNCHANGED <<resolution, tree, contract, call, out, result, watchVars, pureVars>>

AlignedOpts ==
    [start : optional(Aligned(resolution)), end : optional(Aligned(resolution)),
     startInclusive : BOOLEAN, endInclusive : BOOLEAN, reverse : BOOLEAN]

\* no call has begun: the tree is being populated
idle == call.op = "none"

Next ==
    \/ idle /\ \E date \in Instants : Put(date)
    \/ idle /\ \E opts \in AlignedOpts : Iterate(opts)
    \/ Loop
    \/ Pull
    \/ Stop

\* a populated tree and one call of iterate with bounds aligned to the resolution
Spec == Init /\ [][Next]_vars

\* the bounds of the pulled iterations: the first of August of each year,
\* brought to the resolution
PullingBounds ==
    { startOf(d, resolution) :
        d \in { i \in Instants : i.month = 7 /\ i.date = 1 /\ i.hour = 0 } }

PullingOpts ==
    [start : optional(PullingBounds), end : optional(PullingBounds),
     startInclusive : BOOLEAN, endInclusive : BOOLEAN, reverse : BOOLEAN]

NextPulling ==
    \/ idle /\ \E date \in Instants : Put(date)
    \/ idle /\ \E opts \in PullingOpts : Iterate(opts)
    \/ Loop
    \/ Pull

\* iterate with a consumer that asks for pair after pair and never stops
\* early: the generator runs on to its next yield or its end whenever it is
\* asked, and the consumer asks again after every pair
SpecPulling == Init /\ [][NextPulling]_vars /\ WF_vars(Loop) /\ WF_vars(Pull)

AnyOpts ==
    [start : optional(Instants), end : optional(Instants),
     startInclusive : BOOLEAN, endInclusive : BOOLEAN, reverse : BOOLEAN]

NextAny ==
    \/ idle /\ \E date \in Instants : Put(date)
    \/ idle /\ \E opts \in AnyOpts : Iterate(opts)
    \/ Loop
    \/ Pull
    \/ Stop

\* iterate with bounds that are any points in time
SpecAny == Init /\ [][NextAny]_vars

(***************************************************************************)
(* next and previous                                                       *)
(***************************************************************************)
\* the options next passes to iterate with one bound at the wrong end
nextOptsAtEnd(date) ==
    [start |-> << >>, end |-> date, startInclusive |-> FALSE,
     endInclusive |-> TRUE, reverse |-> FALSE]

\* lines 240-244
nextOpts(date) ==
    [start |-> date, end |-> << >>, startInclusive |-> FALSE,
     endInclusive |-> TRUE, reverse |-> FALSE]

\* lines 266-271
previousOpts(date) ==
    [start |-> << >>, end |-> date, startInclusive |-> TRUE,
     endInclusive |-> FALSE, reverse |-> TRUE]

\* the defensive check that fails on a pair at the date as well
nextVerdictStrict(date, refDate) ==
    IF date # << >> /\ ~isAfter(refDate, date[1]) THEN "throw" ELSE "return"

\* lines 246-253: what the loop of next does with a pair
nextVerdict(date, refDate) ==
    IF date # << >>
    THEN IF isSame(refDate, date[1]) THEN "continue"
         ELSE IF isBefore(refDate, date[1]) THEN "throw"
         ELSE "return"
    ELSE "return"

\* lines 273-280: what the loop of previous does with a pair
previousVerdict(date, refDate) ==
    IF date # << >>
    THEN IF isSame(refDate, date[1]) THEN "continue"
         ELSE IF isAfter(refDate, date[1]) THEN "throw"
         ELSE "return"
    ELSE "return"

verdict ==
    IF call.op = "next" THEN nextVerdict(call.date, gen.value[2])
    ELSE previousVerdict(call.date, gen.value[2])

\* a store whose listings may ignore their bounds
InitAnyStore ==
    /\ resolution \in Resolutions
    /\ tree = {}
    /\ contract \in BOOLEAN
    /\ call = noCall
    /\ gen = noIterate
    /\ out = << >>
    /\ result = pending
    /\ watch = noWatch
    /\ eventsTable = noEvents
    /\ subs = {}
    /\ notification = noNotification
    /\ calls = << >>
    /\ logged = 0
    /\ delivered = 0
    /\ handle = noHandle
    /\ codec = noCodec
    /\ path = noPath
    /\ period = noPeriod

\* next(date) is called; latest() and earliest() are the calls without a date
NextCall(date) ==
    /\ call.op = "none"
    /\ call' = [op |-> "next", opts |-> nextOpts(date), date |-> date]
    /\ gen' = beginIterate(nextOpts(date), resolution)
    /\ UNCHANGED <<resolution, tree, contract, out, result, watchVars, pureVars>>

PreviousCall(date) ==
    /\ call.op = "none"
    /\ call' = [op |-> "previous", opts |-> previousOpts(date), date |-> date]
    /\ gen' = beginIterate(previousOpts(date), resolution)
    /\ UNCHANGED <<resolution, tree, contract, out, result, watchVars, pureVars>>

examining == call.op \in {"next", "previous"} /\ gen.pc = "yield" /\ result = pending

\* the pair is at the date: continue with the following pair
Skip ==
    /\ examining
    /\ verdict = "continue"
    /\ gen' = resume(gen, resolution)
    /\ out' = received(gen')
    /\ UNCHANGED <<resolution, tree, contract, call, result, watchVars, pureVars>>

\* the pair is on the wrong side of the date: the error leaves the for-await
\* loop, which returns the generator
Throw ==
    /\ examining
    /\ verdict = "throw"
    /\ gen' = return(gen)
    /\ result' = thrown
    /\ UNCHANGED <<resolution, tree, contract, call, out, watchVars, pureVars>>

\* the pair is returned, which returns the generator
Return ==
    /\ examining
    /\ verdict = "return"
    /\ gen' = return(gen)
    /\ result' = pairOf(gen.value)
    /\ UNCHANGED <<resolution, tree, contract, call, out, watchVars, pureVars>>

\* the iteration ended without a pair to return: lines 255 and 282
ReturnAbsent ==
    /\ call.op \in {"next", "previous"}
    /\ gen.pc = "done"
    /\ result = pending
    /\ result' = absentPair
    /\ UNCHANGED <<resolution, tree, contract, call, gen, out, watchVars, pureVars>>

NextLookup ==
    \/ idle /\ \E date \in Instants : Put(date)
    \/ idle /\ \E date \in optional(Instants) : NextCall(date)
    \/ idle /\ \E date \in optional(Instants) : PreviousCall(date)
    \/ Loop
    \/ Skip
    \/ Throw
    \/ Return
    \/ ReturnAbsent

\* next and previous over a populated tree
SpecLookup == InitAnyStore /\ [][NextLookup]_vars

(***************************************************************************)
(* changesAbout: the nearby-change watcher                                 *)
(***************************************************************************)
metaKey == <<"_">>

\* a filter that compares the changed key with the encoded value
changeCompsByKey(comps, changedUnit, key) ==
    IF key = metaKey THEN << >>
    ELSE LET changeComps == downsampleDateComponents(comps, changedUnit)
         IN IF key # encodeDateComponent(changeComps[changedUnit], changedUnit)
            THEN << setComp(changeComps, changedUnit, decodeDateComponent(key)) >>
            ELSE << >>

\* lines 136-151: the components the callback gets for a changed key, none
\* for the meta key and for a key that decodes to the watched date's value
changeCompsOf(comps, changedUnit, key) ==
    IF key = metaKey THEN << >>
    ELSE LET changeComps == downsampleDateComponents(comps, changedUnit)
             compVal == decodeDateComponent(key)
         IN IF compVal = NaN \/ compVal # changeComps[changedUnit]
            THEN << setComp(changeComps, changedUnit, compVal) >>
            ELSE << >>

\* a callback whose error leaves the loop over the changed keys
callbackUncaught(invocation, rest) ==
    IF invocation.threw THEN << invocation >> ELSE << invocation >> \o rest

\* lines 153-157: the callback is called in a try block, its error caught
\* and logged, and the loop goes on with the rest of the changed keys
tryCallback(invocation, rest) == << invocation >> \o rest

\* lines 135-158: the calls of the callback for the changes of a notification,
\* in the order of the keys, each with the key that caused it and whether the
\* callback threw; failing is the set of keys on which the callback throws
RECURSIVE onChanges(_, _, _, _)
onChanges(comps, unit, changes, failing) ==
    IF changes = << >> THEN << >>
    ELSE LET changeComps == changeCompsOf(comps, unit, Head(changes))
             rest == onChanges(comps, unit, Tail(changes), failing)
         IN IF changeComps = << >> THEN rest
            ELSE tryCallback([key |-> Head(changes), comps |-> changeComps[1],
                              threw |-> Head(changes) \in failing], rest)

\* lines 115-119 and 132-161: a subscription at the node of every unit, the
\* root for the year, the leaf left out
ChangesAbout(date) ==
    /\ ~watch.on
    /\ LET comps == getDateComponents(parseDate(date), resolution)
           units == allUnits(resolution)
           refs == getRefChain(parseDate(date), resolution)
           refTable == [unit \in { units[i] : i \in 1..Len(units) } |-> refs[indexOf(unit)]]
       IN /\ watch' = [on |-> TRUE, date |-> <<date>>, comps |-> comps]
          /\ eventsTable' = refTable
          /\ subs' = { [unit |-> unit, ref |-> refTable[unit]] : unit \in DOMAIN refTable }
    /\ UNCHANGED <<resolution, tree, contract, call, gen, out, result,
                   notification, calls, logged, delivered, handle, pureVars>>

\* the errors the calls logged: line 156
errorsOf(invocations) ==
    Cardinality({ i \in 1..Len(invocations) : invocations[i].threw })

\* the store changes child keys of the node of a unit and notifies the
\* subscription of the node when it is live; the callback fails on the keys
\* of failing
Notify(unit, changes, failing) ==
    /\ delivered < MaxNotifications
    /\ delivered' = delivered + 1
    /\ IF \E sub \in subs : sub.unit = unit
       THEN /\ notification' = [unit |-> unit, changes |-> changes, failing |-> failing]
            /\ calls' = onChanges(watch.comps, unit, changes, failing)
            /\ logged' = logged + errorsOf(calls')
            /\ UNCHANGED handle
       ELSE /\ handle' = [handle EXCEPT !.changes = @ + 1]
            /\ UNCHANGED <<notification, calls, logged>>
    /\ UNCHANGED <<resolution, tree, contract, call, gen, out, result,
                   watch, eventsTable, subs, pureVars>>

\* a handle that turns off the subscription of the root only
offTheRootOnly(table) ==
    { [unit |-> unit, ref |-> table[unit]] : unit \in DOMAIN table \cap {"year"} }

\* lines 126-128: the subscriptions the handle turns off, events.off() for
\* every entry of the table
offEvents(table) ==
    { [unit |-> unit, ref |-> table[unit]] : unit \in DOMAIN table }

\* lines 122-130: the handle changesAbout returns
Off ==
    /\ watch.on
    /\ handle.calls < MaxOffCalls
    /\ IF DOMAIN eventsTable = {}
       THEN /\ handle' = [handle EXCEPT !.calls = @ + 1]
            /\ UNCHANGED <<eventsTable, subs>>
       ELSE /\ subs' = subs \ offEvents(eventsTable)
            /\ eventsTable' = noEvents
            /\ handle' = [handle EXCEPT !.calls = @ + 1,
                                        !.offs = @ + Cardinality(DOMAIN eventsTable)]
    /\ UNCHANGED <<resolution, tree, contract, call, gen, out, result,
                   watch, notification, calls, logged, delivered, pureVars>>

\* the graph values the model draws dates from, by unit
valuesOf(unit) ==
    IF unit = "year" THEN Years
    ELSE IF unit = "month" THEN { graphDateValue(v, "month") : v \in NativeMonths }
    ELSE DaysOfMonth

\* the keys a notification at a unit may name: the keys of dates, the watched
\* value unpadded, the meta key and a key that is no number
changeKeys(unit) ==
    { encodeDateComponent(v, unit) : v \in valuesOf(unit) }
        \cup { toString(watch.comps[unit]), metaKey, <<"x">> }

\* the dates the model watches: the days of one month
WatchedDates == { d \in Instants : d.year = 2020 /\ d.month = 7 /\ d.hour = 0 }

changesOf(unit) ==
    { <<k>> : k \in changeKeys(unit) }
        \cup { c \in changeKeys(unit) \X changeKeys(unit) : c[1] # c[2] }

NextWatch ==
    \/ ~watch.on /\ \E date \in WatchedDates : ChangesAbout(date)
    \/ watch.on /\ delivered < MaxNotifications /\ \E unit \in DOMAIN watch.comps :
                     \E changes \in changesOf(unit) :
                        \E failing \in SUBSET { changes[i] : i \in 1..Len(changes) } :
                           Notify(unit, changes, failing)
    \/ Off

\* a watcher and the notifications of its store
SpecWatch == Init /\ [][NextWatch]_vars

(***************************************************************************)
(* get and getDate as calls on their own                                   *)
(***************************************************************************)
\* the dates of the calls: every field at its least and at a large value
PathDates ==
    { [year |-> y, month |-> mo, date |-> d, hour |-> h,
       minute |-> mi, second |-> sec, millisecond |-> ms] :
      y \in {999, 2020}, mo \in {0, 11}, d \in {1, 31}, h \in {0, 23},
      mi \in {0, 59}, sec \in {0, 59}, ms \in {0, 999} }

PathKeys == { <<"0", "1">>, <<"x">> }

\* the paths of at most n keys
pathsUpTo(n) == UNION { [1..k -> PathKeys] : k \in 0..n }

\* chain references of the graph: the nodes of the tree down to below its
\* leaves, the nodes of another tree, and the top of the graph
PathRefs ==
    LET n == Len(allUnits(resolution)) + 1
    IN { chainOf(p) : p \in pathsUpTo(n) }
         \cup { << <<"x">> >> \o p : p \in pathsUpTo(n) }
         \cup { << >> }

InitPath ==
    /\ resolution \in { ALL_DATE_UNITS[i] : i \in 1..Len(ALL_DATE_UNITS) }
    /\ path \in { [pc |-> "dates", a |-> dates[1], b |-> dates[2]] : dates \in PathDates \X PathDates }
                  \cup { [pc |-> "ref", ref |-> ref] : ref \in PathRefs }
    /\ tree = {}
    /\ contract = TRUE
    /\ call = noCall
    /\ gen = noIterate
    /\ out = << >>
    /\ result = pending
    /\ watch = noWatch
    /\ eventsTable = noEvents
    /\ subs = {}
    /\ notification = noNotification
    /\ calls = << >>
    /\ logged = 0
    /\ delivered = 0
    /\ handle = noHandle
    /\ codec = noCodec
    /\ period = noPeriod

\* get(a) and get(b)
Get ==
    /\ path.pc = "dates"
    /\ path' = [pc |-> "leaves", a |-> path.a, b |-> path.b,
                leafA |-> get(path.a, resolution), leafB |-> get(path.b, resolution)]
    /\ UNCHANGED <<resolution, tree, contract, call, gen, out, result, watchVars, codec, period>>

\* getDate(get(a))
GetDate ==
    /\ path.pc = "leaves"
    /\ path' = [pc |-> "date", a |-> path.a, b |-> path.b,
                leafA |-> path.leafA, leafB |-> path.leafB,
                result |-> getDate(chainOf(path.leafA), resolution)]
    /\ UNCHANGED <<resolution, tree, contract, call, gen, out, result, watchVars, codec, period>>

\* getDate(ref) of any chain reference
GetDateOf ==
    /\ path.pc = "ref"
    /\ path' = [pc |-> "checked", ref |-> path.ref, result |-> getDate(path.ref, resolution)]
    /\ UNCHANGED <<resolution, tree, contract, call, gen, out, result, watchVars, codec, period>>

NextPath ==
    \/ Get
    \/ GetDate
    \/ GetDateOf

\* the path resolver over dates and chain references
SpecPath == InitPath /\ [][NextPath]_vars

(***************************************************************************)
(* The codec as calls on their own                                         *)
(***************************************************************************)
\* the valid values of a unit
minValue(unit) == IF unit \in {"month", "day"} THEN 1 ELSE 0

maxValue(unit) == IF unit = "year" THEN 9999 ELSE MAX_DATE_COMPS[unit] - 1

\* the values a value is compared with: every greater one in a small range;
\* in a large range its successor, values with more digits and the greatest
greaterValues(unit, a) ==
    IF maxValue(unit) < 100 THEN (a + 1)..maxValue(unit)
    ELSE { b \in {a + 1, a + 9, 2 * a, 10, 100, 1000, maxValue(unit)} :
             a < b /\ b <= maxValue(unit) }

InitCodec ==
    /\ \E unit \in { ALL_DATE_UNITS[i] : i \in 1..Len(ALL_DATE_UNITS) } :
          \E a \in minValue(unit)..maxValue(unit) :
             \E b \in {a} \cup greaterValues(unit, a) :
                codec = [pc |-> "values", unit |-> unit, a |-> a, b |-> b]
    /\ resolution = "day"
    /\ path = noPath
    /\ period = noPeriod
    /\ tree = {}
    /\ contract = TRUE
    /\ call = noCall
    /\ gen = noIterate
    /\ out = << >>
    /\ result = pending
    /\ watch = noWatch
    /\ eventsTable = noEvents
    /\ subs = {}
    /\ notification = noNotification
    /\ calls = << >>
    /\ logged = 0
    /\ delivered = 0
    /\ handle = noHandle

\* encodeDateComponent of both values
Encode ==
    /\ codec.pc = "values"
    /\ codec' = [pc |-> "keys", unit |-> codec.unit, a |-> codec.a, b |-> codec.b,
                 keyA |-> encodeDateComponent(codec.a, codec.unit),
                 keyB |-> encodeDateComponent(codec.b, codec.unit)]
    /\ UNCHANGED <<resolution, tree, contract, call, gen, out, result, watchVars, path, period>>

\* decodeDateComponent of the key of the first value
Decode ==
    /\ codec.pc = "keys"
    /\ codec' = [pc |-> "decoded", unit |-> codec.unit, a |-> codec.a, b |-> codec.b,
                 keyA |-> codec.keyA, keyB |-> codec.keyB,
                 value |-> decodeDateComponent(codec.keyA)]
    /\ UNCHANGED <<resolution, tree, contract, call, gen, out, result, watchVars, path, period>>

\* decodeDateComponent of the first value written without padding
DecodeUnpadded ==
    /\ codec.pc = "keys"
    /\ codec' = [pc |-> "unpadded", unit |-> codec.unit, a |-> codec.a, b |-> codec.b,
                 keyA |-> codec.keyA, keyB |-> codec.keyB,
                 value |-> decodeDateComponent(toString(codec.a))]
    /\ UNCHANGED <<resolution, tree, contract, call, gen, out, result, watchVars, path, period>>

NextCodec ==
    \/ Encode
    \/ Decode
    \/ DecodeUnpadded

\* the codec over the valid values of every unit
SpecCodec == InitCodec /\ [][NextCodec]_vars

(***************************************************************************)
(* nextDate and previousDate as calls on their own                         *)
(***************************************************************************)
isLeapYear(year) == (year % 4 = 0 /\ year % 100 # 0) \/ year % 400 = 0

\* the days of a native month (1 = February)
daysInMonth(year, month) ==
    IF month = 1 THEN (IF isLeapYear(year) THEN 29 ELSE 28)
    ELSE IF month \in {3, 5, 8, 10} THEN 30
    ELSE 31

leastOf(field) == IF field = "date" THEN 1 ELSE 0

greatestOf(date, field) ==
    CASE field = "month" -> 11
      [] field = "date" -> daysInMonth(date.year, date.month)
      [] field = "hour" -> 23
      [] field = "minute" -> 59
      [] field = "second" -> 59
      [] field = "millisecond" -> 999

\* a moment set to a month or a year keeps its day when the month has it
\* and takes the last day of the month otherwise
clampDate(date) ==
    IF date.date > daysInMonth(date.year, date.month)
    THEN [date EXCEPT !.date = daysInMonth(date.year, date.month)]
    ELSE date

\* one more at the i-th field, carried into the fields above
RECURSIVE increment(_, _)
increment(date, i) ==
    LET field == NativeUnits[i]
    IN IF i = 1 THEN clampDate([date EXCEPT !.year = @ + 1])
       ELSE IF date[field] < greatestOf(date, field)
            THEN clampDate([date EXCEPT ![field] = @ + 1])
            ELSE increment([date EXCEPT ![field] = leastOf(field)], i - 1)

\* one less at the i-th field, borrowed from the fields above
RECURSIVE decrement(_, _)
decrement(date, i) ==
    LET field == NativeUnits[i]
    IN IF i = 1 THEN clampDate([date EXCEPT !.year = @ - 1])
       ELSE IF date[field] > leastOf(field)
            THEN clampDate([date EXCEPT ![field] = @ - 1])
            ELSE LET above == decrement([date EXCEPT ![field] = leastOf(field)], i - 1)
                 IN [above EXCEPT ![field] = greatestOf(above, field)]

\* moment.add(1, res) and moment.subtract(1, res), as values
addOne(date, res) == increment(date, indexOf(res))
subtractOne(date, res) == decrement(date, indexOf(res))

\* Moments are objects: startOf, add and subtract change the moment they are
\* called on and return that same moment.  The objects of a call are the
\* cells of a sequence, and a local of the code holds the index of its cell.
\* lines 56-61
nextDate(date, res) ==
    LET m == 1
        parsed == << parseDate(date) >>
        floored == [parsed EXCEPT ![m] = startOf(@, res)]
        floor == m
        added == [floored EXCEPT ![floor] = addOne(@, res)]
        next == floor
    IN added[next]

\* lines 63-70
previousDate(date, res) ==
    LET m == 1
        parsed == << parseDate(date) >>
        floored == [parsed EXCEPT ![m] = startOf(@, res)]
        floor == m
        subtracted == IF isSame(floored[floor], floored[m])
                      THEN [floored EXCEPT ![floor] = subtractOne(@, res)]
                      ELSE floored
    IN subtracted[floor]

\* the dates of the calls: the first and the last of short and long months
\* of a leap year and of the year after it, at the ends of the day
PeriodDates ==
    { d \in [year : {2020, 2021}, month : {0, 1, 2, 11}, date : {1, 28, 29, 31},
             hour : {0, 23}, minute : {0, 59}, second : {0, 59},
             millisecond : {0, 999}] :
        d.date <= daysInMonth(d.year, d.month) }

InitPeriod ==
    /\ resolution \in { ALL_DATE_UNITS[i] : i \in 1..Len(ALL_DATE_UNITS) }
    /\ period \in { [pc |-> "date", date |-> date] : date \in PeriodDates }
    /\ path = noPath
    /\ codec = noCodec
    /\ tree = {}
    /\ contract = TRUE
    /\ call = noCall
    /\ gen = noIterate
    /\ out = << >>
    /\ result = pending
    /\ watch = noWatch
    /\ eventsTable = noEvents
    /\ subs = {}
    /\ notification = noNotification
    /\ calls = << >>
    /\ logged = 0
    /\ delivered = 0
    /\ handle = noHandle

\* nextDate(date)
NextDate ==
    /\ period.pc = "date"
    /\ period' = [pc |-> "next", date |-> period.date,
                  result |-> nextDate(period.date, resolution)]
    /\ UNCHANGED <<resolution, tree, contract, call, gen, out, result, watchVars, codec, path>>

\* previousDate(date)
PreviousDate ==
    /\ period.pc = "date"
    /\ period' = [pc |-> "previous", date |-> period.date,
                  result |-> previousDate(period.date, resolution)]
    /\ UNCHANGED <<resolution, tree, contract, call, gen, out, result, watchVars, codec, path>>

NextPeriod ==
    \/ NextDate
    \/ PreviousDate

\* nextDate and previousDate over dates of every resolution
SpecPeriod == InitPeriod /\ [][NextPeriod]_vars

(***************************************************************************)
(* Properties of iterate                                                   *)
(***************************************************************************)
\* the leaf of the date holds a value
stored(d) == get(d, resolution) \in tree

defaultFlags(opts) == opts.startInclusive /\ ~opts.endInclusive /\ ~opts.reverse

\* the date is within the bounds the options give, chronologically
afterStart(d, opts) ==
    \/ opts.start = << >>
    \/ isAfter(d, opts.start[1])
    \/ (opts.startInclusive /\ isSame(d, opts.start[1]))

beforeEnd(d, opts) ==
    \/ opts.end = << >>
    \/ isBefore(d, opts.end[1])
    \/ (opts.endInclusive /\ isSame(d, opts.end[1]))

\* the pairs of the stored leaves whose date is within the bounds
pairsWithin(opts) ==
    { <<get(d, resolution), d>> :
        d \in { x \in Aligned(resolution) : stored(x) /\ afterStart(x, opts) /\ beforeEnd(x, opts) } }

received_set == { out[i] : i \in 1..Len(out) }

ascending == \A i \in 1..Len(out) : \A j \in 1..Len(out) : i < j => isBefore(out[i][2], out[j][2])

descending == \A i \in 1..Len(out) : \A j \in 1..Len(out) : i < j => isAfter(out[i][2], out[j][2])

drained == call.op = "iterate" /\ gen.pc = "done"

\* C1: range completeness.  An iterate with the default flags and aligned
\* bounds S and E, drained to its end, has yielded exactly one pair for each
\* stored date d with S <= d < E, in strictly ascending order of date; an
\* omitted bound does not restrict.
C1_RangeCompleteness ==
    (drained /\ defaultFlags(call.opts)) =>
        /\ received_set = pairsWithin(call.opts)
        /\ ascending

\* a day tree drained between two given bounds has yielded two leaves of
\* different months
C1_Witness ==
    /\ drained /\ defaultFlags(call.opts)
    /\ call.opts.start # << >> /\ call.opts.end # << >>
    /\ Len(out) = 2 /\ out[1][2].month # out[2][2].month
    /\ resolution = "day"

\* C2: bounds that are any points in time.  A drained iterate has yielded
\* exactly the stored leaves whose date d is within the bounds under the
\* flags: d >= start (d > start when start is exclusive) and d < end
\* (d <= end when end is inclusive).
C2_ArbitraryBounds ==
    drained => received_set = pairsWithin(call.opts)

\* C3: early termination releases everything.  Once the consumer has closed
\* the iterator, no listing the iteration opened is still open.
C3_EarlyTerminationReleases ==
    gen.pc = "closed" => \A i \in 1..Len(gen.listings) : gen.listings[i].status # "open"

(***************************************************************************)
(* Properties of next and previous                                         *)
(***************************************************************************)
wrongSide(refDate) ==
    IF call.op = "next" THEN ~isAfter(refDate, call.date[1])
    ELSE ~isBefore(refDate, call.date[1])

\* C4 as claimed: a first pair that is not strictly after the date of next
\* (before the date of previous) makes the call fail.
C4_FirstPairNotBeyondFails ==
    [][(examining /\ call.date # << >> /\ Len(out) = 1 /\ wrongSide(gen.value[2]))
        => result'.kind = "error"]_vars

\* C4 amended: a pair at the date itself is skipped, the call going on with
\* the following pair without a result; a pair strictly on the wrong side of
\* the date makes the call fail, and never is such a pair returned.
C4_DefensiveCheck ==
    [][(examining /\ call.date # << >> /\ wrongSide(gen.value[2])) =>
        IF isSame(gen.value[2], call.date[1])
        THEN result' = pending /\ gen'.pc # "closed" /\ gen' = resume(gen, resolution)
        ELSE result' = thrown /\ gen'.pc = "closed"]_vars

\* next has skipped a first pair at its date and returned the following one
C4_Witness ==
    /\ call.op = "next" /\ call.date # << >>
    /\ result.kind = "pair"
    /\ Len(out) = 2
    /\ isSame(out[1][2], call.date[1])

\* the stored dates strictly after (next) or before (previous) the date
beyond(op, date) ==
    { d \in Aligned(resolution) :
        /\ stored(d)
        /\ date # << >> => IF op = "next" THEN isAfter(d, date[1]) ELSE isBefore(d, date[1]) }

\* the one of them nearest to the date
nearest(op, date) ==
    CHOOSE d \in beyond(op, date) :
        \A o \in beyond(op, date) :
            o # d => IF op = "next" THEN isBefore(d, o) ELSE isAfter(d, o)

expected(op, date) ==
    IF beyond(op, date) = {} THEN absentPair
    ELSE pairOf(<<get(nearest(op, date), resolution), nearest(op, date)>>)

\* C5: for any date, aligned or not, next returns the leaf with the smallest
\* date strictly after it and previous the leaf with the largest date
\* strictly before it, the absent pair when there is none; without a date
\* they return the earliest and the latest leaf.
C5_NearestLeaf ==
    (contract /\ call.op \in {"next", "previous"} /\ result # pending)
        => result = expected(call.op, call.date)

firstOf(pairs) == IF pairs = << >> THEN absentPair ELSE pairOf(pairs[1])

alignedDate == call.date # << >> /\ call.date[1] \in Aligned(resolution)

\* C6: on a store that honours its listing contract and for an aligned date
\* d, next(d) ends with the first pair of iterate({start: d, startInclusive:
\* false}) and previous(d) with the first pair of iterate({end: d,
\* endInclusive: false, reverse: true}), with the absent pair exactly when
\* that iteration is empty.
C6_AgreesWithIterate ==
    (contract /\ alignedDate /\ result # pending) =>
        /\ call.op = "next" =>
             result = firstOf(iterateAll(tree, resolution,
                         [noOpts EXCEPT !.start = call.date, !.startInclusive = FALSE],
                         TRUE).out)
        /\ call.op = "previous" =>
             result = firstOf(iterateAll(tree, resolution,
                         [noOpts EXCEPT !.end = call.date, !.endInclusive = FALSE,
                                        !.reverse = TRUE],
                         TRUE).out)

\* next(d) has returned a leaf while a leaf is stored at d and one before d
C6_Witness ==
    /\ contract /\ alignedDate /\ call.op = "next"
    /\ result.kind = "pair"
    /\ stored(call.date[1])
    /\ Cardinality(tree) = 2
    /\ resolution = "day"

(***************************************************************************)
(* Properties of the direction and of the flags                            *)
(***************************************************************************)
narrowing(listings) ==
    { [ref |-> listings[i].ref, start |-> listings[i].opts.start, end |-> listings[i].opts.end] :
        i \in 1..Len(listings) }

\* C7: reverse iteration.  With aligned bounds, a drained iterate in reverse
\* has yielded the pairs of the same call without reverse, in the opposite
\* and strictly descending order, and has opened the listings of the same
\* nodes with the same bounds, start the lower and end the upper.
C7_Reverse ==
    (drained /\ call.opts.reverse) =>
        LET forward == iterateAll(tree, resolution, [call.opts EXCEPT !.reverse = FALSE], contract)
        IN /\ out = reverseSeq(forward.out)
           /\ descending
           /\ narrowing(gen.listings) = narrowing(forward.listings)

\* a reverse iteration between two given bounds has yielded two leaves
C7_Witness ==
    /\ drained /\ call.opts.reverse
    /\ call.opts.start # << >> /\ call.opts.end # << >>
    /\ Len(out) = 2
    /\ resolution = "day"

\* every pair of the set is the leaf at the date
onlyAt(pairs, date) == \A p \in pairs : date # << >> /\ isSame(p[2], date[1])

difference(a, b) == (a \ b) \cup (b \ a)

yieldedSet(opts) ==
    LET pairs == iterateAll(tree, resolution, opts, contract).out
    IN { pairs[i] : i \in 1..Len(pairs) }

\* C8: boundary inclusivity.  With aligned bounds, the set yielded changes
\* with startInclusive by no more than the leaf at start and with
\* endInclusive by no more than the leaf at end; and every listing above the
\* leaf level is inclusive on both ends.
C8_BoundaryInclusivity ==
    /\ \A i \in 1..Len(gen.listings) :
          gen.listings[i].unit # resolution =>
              gen.listings[i].opts.startInclusive /\ gen.listings[i].opts.endInclusive
    /\ drained =>
         /\ onlyAt(difference(received_set,
                     yieldedSet([call.opts EXCEPT !.startInclusive = ~call.opts.startInclusive])),
                   call.opts.start)
         /\ onlyAt(difference(received_set,
                     yieldedSet([call.opts EXCEPT !.endInclusive = ~call.opts.endInclusive])),
                   call.opts.end)

\* an iteration exclusive at a start that holds a leaf has yielded a later
\* leaf of the same month
C8_Witness ==
    /\ drained
    /\ ~call.opts.startInclusive /\ call.opts.start # << >>
    /\ stored(call.opts.start[1])
    /\ Len(out) = 1
    /\ out[1][2].year = call.opts.start[1].year
    /\ out[1][2].month = call.opts.start[1].month
    /\ resolution = "day"

(***************************************************************************)
(* Properties of the watcher                                               *)
(***************************************************************************)
notified == notification.unit # "none"

ownValue == watch.comps[notification.unit]

changedKeys == { notification.changes[i] : i \in 1..Len(notification.changes) }

\* the key is the meta key or decodes to the watched date's own value
suppressed(key) == key = metaKey \/ decodeDateComponent(key) = ownValue

\* C9: self-path suppression.  A changed key that decodes to the watched
\* date's own value at the unit of the notification, and the meta key, never
\* invoke the callback; a key that decodes to another value always does.
C9_SelfPathSuppression ==
    notified =>
        \A key \in changedKeys :
            suppressed(key) <=> ~\E i \in 1..Len(calls) : calls[i].key = key

\* a notification named the watched month unpadded and another month
C9_Witness ==
    /\ notified /\ notification.unit = "month"
    /\ notification.changes = << toString(ownValue), encodeDateComponent(ownValue + 1, "month") >>
    /\ toString(ownValue) # encodeDateComponent(ownValue, "month")
    /\ Len(calls) = 1

unitsThrough(unit) == { ALL_DATE_UNITS[i] : i \in 1..indexOf(unit) }

\* C10: the payload.  Every call of the callback caused by a notification at
\* unit u gets components of exactly the units from the year through u, equal
\* to the watched date's at the units coarser than u and with the decoded
\* changed key at u, which is not the watched date's value; the callback is
\* called once for each changed key that is not suppressed, in their order;
\* and the watched date's own components stay what they were.
C10_Payload ==
    notified =>
        /\ \A i \in 1..Len(calls) :
              /\ DOMAIN calls[i].comps = unitsThrough(notification.unit)
              /\ \A unit \in unitsThrough(notification.unit) \ {notification.unit} :
                    calls[i].comps[unit] = watch.comps[unit]
              /\ calls[i].comps[notification.unit] = decodeDateComponent(calls[i].key)
              /\ calls[i].comps[notification.unit] # ownValue
        /\ Len(calls) = Cardinality({ key \in changedKeys : ~suppressed(key) })
        /\ \A i \in 1..Len(calls) : \A j \in 1..Len(calls) : i # j => calls[i].key # calls[j].key
        /\ watch.comps = getDateComponents(watch.date[1], resolution)

\* a notification at the month of a watched day made two calls
C10_Witness ==
    /\ notified /\ notification.unit = "month" /\ resolution = "day"
    /\ Len(calls) = 2
    /\ calls[1].comps.month # calls[2].comps.month

(***************************************************************************)
(* Properties of the watcher's cancellation and of a failing callback      *)
(***************************************************************************)
cancelled == handle.calls >= 1

\* C11: watcher cancellation.  The first call of the handle turns off the
\* subscription of every unit and empties the table, so that no subscription
\* is live afterwards; no change made after it invokes the callback; and a
\* later call of the handle turns off nothing and changes nothing.
C11_Cancellation ==
    [][/\ (~cancelled /\ cancelled') =>
             /\ subs' = {} /\ eventsTable' = noEvents
             /\ handle'.offs = Len(allUnits(resolution))
       /\ cancelled =>
             /\ UNCHANGED <<subs, eventsTable, notification, calls, logged, watch>>
             /\ handle'.offs = handle.offs]_vars

\* a watcher of a day that had called its callback was cancelled, the store
\* made a change afterwards, and the handle was called again
C11_Witness ==
    /\ handle.calls = 2 /\ handle.changes >= 1 /\ handle.offs = 3
    /\ calls # << >>
    /\ resolution = "day"

\* the store has notified a live subscription
heard == delivered' = delivered + 1 /\ handle'.changes = handle.changes

\* C12: callback failure isolation.  In every notification, also one after
\* errors of the callback, the errors of the callback are caught and logged,
\* no subscription is turned off, and the callback is called for every
\* changed key that is not suppressed, the keys after a failing one too.
C12_FailureIsolation ==
    [][heard =>
         /\ UNCHANGED <<subs, eventsTable>>
         /\ logged' = logged + Cardinality(
                { key \in notification'.failing : \E i \in 1..Len(calls') : calls'[i].key = key })
         /\ \A i \in 1..Len(notification'.changes) :
               LET key == notification'.changes[i]
               IN (key # metaKey
                     /\ decodeDateComponent(key) # watch.comps[notification'.unit])
                  => \E j \in 1..Len(calls') : calls'[j].key = key]_vars

\* after a notification with an error, the callback threw on the first of
\* two changed keys and was called for the second
C12_Witness ==
    /\ delivered = 2 /\ logged = 2
    /\ Len(calls) = 2 /\ calls[1].threw /\ ~calls[2].threw
    /\ subs # {}

(***************************************************************************)
(* Properties of an interval that holds no date                            *)
(***************************************************************************)
\* start is after end, or at end with one of the two bounds exclusive
emptyInterval(opts) ==
    /\ opts.start # << >> /\ opts.end # << >>
    /\ \/ isAfter(opts.start[1], opts.end[1])
       \/ (isSame(opts.start[1], opts.end[1]) /\ ~(opts.startInclusive /\ opts.endInclusive))

\* C13: inverted or empty interval.  With start after end, or start at end
\* and a bound exclusive, iterate never yields a pair, whatever the tree
\* holds and in both directions, and runs to its end.
C13_EmptyInterval ==
    (call.op = "iterate" /\ emptyInterval(call.opts)) =>
        /\ out = << >>
        /\ gen.pc \in {"loop", "done"}

(***************************************************************************)
(* Properties of the path resolver                                         *)
(***************************************************************************)
\* C14: path round-trip.  For every resolution and every dates a and b,
\* getDate(get(a)) is a truncated to the resolution, the finer units at
\* their start value, and get(a) and get(b) are the same leaf exactly when
\* the truncations of a and b are equal.
C14_PathRoundTrip ==
    /\ path.pc = "date" =>
          path.result = [kind |-> "date", value |-> startOf(path.a, resolution)]
    /\ path.pc \in {"leaves", "date"} =>
          (path.leafA = path.leafB <=> startOf(path.a, resolution) = startOf(path.b, resolution))

\* on a tree of minutes, two dates of one minute that differ in their
\* seconds have one leaf, whose date was asked for
C14_Witness ==
    /\ path.pc = "date" /\ resolution = "minute"
    /\ path.a # path.b /\ path.leafA = path.leafB
    /\ path.a.second = 59 /\ path.a.month = 11 /\ path.a.year = 999

\* the node is under the root, as many steps below it as the tree has units
isLeafOf(ref, depth) == Len(ref) = depth + 1 /\ SubSeq(ref, 1, 1) = rootChain

\* C15: getDate reference validation.  getDate(ref) fails with the
\* invalid-reference error when ref is not a node exactly as many steps
\* below the root as the resolution has units (the root, a node above the
\* leaves, a node below the leaves, a node of another tree), and returns a
\* date, throwing nothing, for every node that is.
C15_ReferenceValidation ==
    path.pc = "checked" =>
        IF isLeafOf(path.ref, Len(allUnits(resolution)))
        THEN path.result.kind = "date"
        ELSE path.result.kind = "error" /\ path.result = invalidReference

\* getDate has refused a node one step below the leaves of a tree of days
C15_Witness ==
    /\ path.pc = "checked" /\ resolution = "day"
    /\ Len(path.ref) = 5 /\ path.ref[1] = treeKey
    /\ path.result.kind = "error"

(***************************************************************************)
(* Properties of the codec                                                 *)
(***************************************************************************)
\* the width of the keys of each unit
keyWidth == [year |-> 4, month |-> 2, day |-> 2, hour |-> 2, minute |-> 2,
             second |-> 2, millisecond |-> 3]

encoded == codec.pc \in {"keys", "decoded", "unpadded"}

\* C16: order preservation and fixed width.  For every unit and valid
\* values a < b of it, the key of a is less than the key of b as a string,
\* and every key has the width of its unit: 4 for the year, 3 for the
\* millisecond, 2 for every other unit.
C16_OrderAndWidth ==
    encoded =>
        /\ Len(codec.keyA) = keyWidth[codec.unit]
        /\ Len(codec.keyB) = keyWidth[codec.unit]
        /\ codec.a < codec.b => keyLess(codec.keyA, codec.keyB)

\* the years 999 and 1000 were encoded
C16_Witness ==
    /\ encoded /\ codec.unit = "year"
    /\ codec.a = 999 /\ codec.b = 1000
    /\ codec.keyA = <<"0", "9", "9", "9">>

\* C17: encode/decode round-trip.  For every unit and valid value v of it,
\* the key of v decodes to v, and so does v written without padding.
C17_CodecRoundTrip ==
    codec.pc \in {"decoded", "unpadded"} => codec.value = codec.a

\* the key of the millisecond 80 was decoded
C17_Witness ==
    /\ codec.pc = "decoded" /\ codec.unit = "millisecond"
    /\ codec.a = 80 /\ codec.keyA = <<"0", "8", "0">>
    /\ codec.value = 80

(***************************************************************************)
(* Properties of the listings of an iteration                              *)
(***************************************************************************)
\* the node of the listing lies on the path of the boundary date: the keys
\* that lead to it decode to the date's components at the units above
onSpine(listing, date) ==
    \A j \in 1..Len(listing.ref) :
        decodeDateComponent(listing.ref[j]) = getDateComponent(date, ALL_DATE_UNITS[j])

\* the bound a listing is to get from a boundary date
boundOf(listing, date) ==
    IF date # << >> /\ onSpine(listing, date[1])
    THEN encodeDateComponent(getDateComponent(date[1], listing.unit), listing.unit)
    ELSE undefinedKey

\* the listings of one unit with a bound from start (from end)
restrictedByStart(unit) ==
    { i \in 1..Len(gen.listings) :
        gen.listings[i].unit = unit /\ gen.listings[i].opts.start # undefinedKey }

restrictedByEnd(unit) ==
    { i \in 1..Len(gen.listings) :
        gen.listings[i].unit = unit /\ gen.listings[i].opts.end # undefinedKey }

\* C18: the narrowing rule.  Every listing an iteration opens at a unit u
\* has start's value at u as its lower bound exactly when start is given and
\* the components chosen above the listing's node are start's (always at the
\* year), and no lower bound otherwise; likewise its upper bound with end.
\* So of the listings of one unit at most one has a bound from start and at
\* most one a bound from end.
C18_NarrowingRule ==
    /\ \A i \in 1..Len(gen.listings) :
          /\ gen.listings[i].opts.start = boundOf(gen.listings[i], call.opts.start)
          /\ gen.listings[i].opts.end = boundOf(gen.listings[i], call.opts.end)
    /\ \A i \in 1..Len(allUnits(resolution)) :
          /\ Cardinality(restrictedByStart(ALL_DATE_UNITS[i])) <= 1
          /\ Cardinality(restrictedByEnd(ALL_DATE_UNITS[i])) <= 1

\* an iteration from a start has listed the days of two months of two years,
\* with a bound for the month of start only
C18_Witness ==
    /\ drained /\ resolution = "day" /\ call.opts.start # << >>
    /\ Len(out) = 2 /\ out[1][2].year # out[2][2].year /\ out[1][2].month = out[2][2].month
    /\ Cardinality(restrictedByStart("day")) = 1
    /\ Cardinality({ i \in 1..Len(gen.listings) : gen.listings[i].unit = "day" }) = 2

\* the units of the ladder above a unit
coarserThan(unit) == { ALL_DATE_UNITS[j] : j \in 1..(indexOf(unit) - 1) }

\* C20: bounded traversal state.  The stack of an iteration holds one
\* listing for each unit from the year down to the current level, the
\* current level's once it is opened, and so never more than the resolution
\* has units; the components accumulated when a listing at a unit is opened
\* are exactly the values chosen at the units above it; and no component of
\* a level the traversal has gone up from remains.
C20_BoundedState ==
    gen.pc # "none" =>
        LET units == allUnits(resolution) IN
        /\ Len(gen.itStack) <= Len(units)
        /\ Len(gen.itStack) = IF gen.ref = << >> THEN gen.unitIndex + 1 ELSE gen.unitIndex
        /\ \A k \in 1..Len(gen.itStack) :
              gen.listings[gen.itStack[k]].unit = units[Len(gen.itStack) + 1 - k]
        /\ \A i \in 1..Len(gen.listings) :
              LET l == gen.listings[i] IN
              /\ DOMAIN l.comps = coarserThan(l.unit)
              /\ \A j \in 1..Len(l.ref) : l.comps[units[j]] = decodeDateComponent(l.ref[j])
        /\ DOMAIN gen.comps \subseteq { units[j] : j \in 1..(gen.unitIndex + 1) }

\* an iteration over days has gone up from the days and the months of one
\* year and stands at a day of another year
C20_Witness ==
    /\ resolution = "day" /\ gen.pc = "yield"
    /\ Len(gen.itStack) = 3 /\ Len(gen.listings) = 5
    /\ gen.unitIndex = 2
    /\ DOMAIN gen.comps = {"year", "month", "day"}

\* the traversal has ended: the level is above the root and no listing is
\* on the stack
exhausted == gen.pc = "done" /\ gen.unitIndex < 0 /\ gen.itStack = << >>

\* C19: termination.  Whatever the tree, the resolution, the bounds, the
\* flags and the direction, an iteration whose consumer keeps asking for
\* the next pair comes to its end, the level above the root and the stack
\* empty, having yielded no more pairs than the tree has leaves.
C19_Termination ==
    /\ [](Len(out) <= Cardinality(tree))
    /\ (call.op = "iterate") ~> exhausted

\* a reverse iteration between two bounds has ended after two pairs
C19_Witness ==
    /\ exhausted /\ call.op = "iterate" /\ call.opts.reverse
    /\ call.opts.start # << >> /\ call.opts.end # << >>
    /\ Len(out) = 2 /\ Len(gen.listings) = 5

\* the starts of the periods of the resolution that hold the dates of the calls
alignedInstants == { startOf(d, resolution) : d \in PeriodDates }

isAligned(date) == startOf(date, resolution) = date

\* previousDate has returned the greatest aligned instant strictly before
\* its date
previousIsGreatestBefore ==
    period.pc = "previous" =>
        /\ isAligned(period.result)
        /\ isBefore(period.result, period.date)
        /\ \A q \in alignedInstants :
              ~(isBefore(period.result, q) /\ isBefore(q, period.date))
        /\ ~isAligned(period.date) => period.result = startOf(period.date, resolution)

\* nextDate has returned the start of the period after the one of its date
nextIsFollowing ==
    period.pc = "next" =>
        /\ isAligned(period.result)
        /\ isAfter(period.result, period.date)
        /\ \A q \in alignedInstants :
              ~(isBefore(startOf(period.date, resolution), q) /\ isBefore(q, period.result))

\* C21: previousDate(date) returns the greatest instant aligned to the
\* resolution that is strictly before date: the start of the period that
\* holds date when date is not aligned, the start of the period before only
\* when date is aligned.  nextDate(date) returns the start of the period
\* after the one that holds date.
C21_PreviousAndNextDate ==
    /\ previousIsGreatestBefore
    /\ nextIsFollowing

====
